---- MODULE Spec2Model ----
(***************************************************************************)
(* A model of the urlcodec package (urlencoder.go): Encode flattens a      *)
(* map[string]any into url.Values, Decode rebuilds a map[string]any from   *)
(* url.Values.                                                              *)
(*                                                                         *)
(* Go strings are modelled as sequences of one-character strings, so that  *)
(* strings.Split, strings.Contains and the regular expression are computed *)
(* character by character.  Go values (any) are records of one shape:      *)
(*   kind   "string" | "int" | "float" | "bool" | "ptr" | "interface"      *)
(*          | "slice" | "map" | "struct" | "field" | "minSlice" | "chan"   *)
(*          | "invalid" | "none"                                           *)
(*   str    the text of a string                                           *)
(*   num    the number of an int or float, 0/1 for a bool; for a map, 0    *)
(*          when its keys are strings                                      *)
(*   items  the elements of a slice; <<v>> / <<>> for a pointer or an      *)
(*          interface that holds v / is nil; the fields of a struct        *)
(*   fields the entries of a map[string]any, a set of [key, val]           *)
(*   elems  the entries of a minSlice (map[int]any), a set of [idx, val]   *)
(***************************************************************************)
EXTENDS Naturals, Integers, Sequences, FiniteSets, TLC

VARIABLES
    data,      \* Encode's argument (map[string]any), NoValue when unused
    values,    \* the url.Values: a function from key to list of strings
    order,     \* the keys of values in the order the range loop of decodeURL
               \* visits them (the runtime's choice)
    todo,      \* the keys the loop has not visited yet, a suffix of order
    urlData,   \* decodeURL's urlData
    depth,     \* decodeURL's depth
    pc,        \* "encode" | "encoded" | "failed" | "decode" | "done"
    result,    \* "none" | "ok" | "err" | "panic": what the call returned
    err        \* the error returned ("" when none)

vars == <<data, values, order, todo, urlData, depth, pc, result, err>>

----------------------------------------------------------------------------
(* Program constants *)

maxRecursionDepth == 10

maxSliceSize == 1000

----------------------------------------------------------------------------
(* Characters *)

Digits == {"0", "1", "2", "3", "4", "5", "6", "7", "8", "9"}

Letters ==
    {"a", "b", "c", "d", "e", "f", "g", "h", "i", "j", "k", "l", "m",
     "n", "o", "p", "q", "r", "s", "t", "u", "v", "w", "x", "y", "z",
     "A", "B", "C", "D", "E", "F", "G", "H", "I", "J", "K", "L", "M",
     "N", "O", "P", "Q", "R", "S", "T", "U", "V", "W", "X", "Y", "Z"}

\* the class \w of the regular expression
WordChars == Letters \cup Digits \cup {"_"}

IsWord(c) == c \in WordChars

\* the class \d of the regular expression
IsDigit(c) == c \in Digits

DigitVal(c) ==
    CASE c = "0" -> 0 [] c = "1" -> 1 [] c = "2" -> 2 [] c = "3" -> 3
      [] c = "4" -> 4 [] c = "5" -> 5 [] c = "6" -> 6 [] c = "7" -> 7
      [] c = "8" -> 8 [] c = "9" -> 9

DigitChar(n) ==
    CASE n = 0 -> "0" [] n = 1 -> "1" [] n = 2 -> "2" [] n = 3 -> "3"
      [] n = 4 -> "4" [] n = 5 -> "5" [] n = 6 -> "6" [] n = 7 -> "7"
      [] n = 8 -> "8" [] n = 9 -> "9"

----------------------------------------------------------------------------
(* Strings *)

\* strings.Contains(s, c) for a one-character c
Contains(s, c) == \E i \in 1..Len(s) : s[i] = c

\* strings.Split(s, "."): the pieces between the dots, empty pieces kept
RECURSIVE Split(_)
Split(s) ==
    IF ~Contains(s, ".") THEN <<s>>
    ELSE LET i == CHOOSE n \in 1..Len(s) :
                    s[n] = "." /\ \A m \in 1..(n - 1) : s[m] # "."
         IN  <<SubSeq(s, 1, i - 1)>> \o Split(SubSeq(s, i + 1, Len(s)))

\* the first position >= i of s that holds no character of the class
\* (Len(s) + 1 when the run reaches the end of s)
RunEnd(s, i, class) ==
    CHOOSE j \in i..(Len(s) + 1) :
        /\ \A m \in i..(j - 1) : s[m] \in class
        /\ (j <= Len(s) => s[j] \notin class)

\* does (\w+)\[(\d+)\] match s starting at position i
MatchesAt(s, i) ==
    LET j == RunEnd(s, i, WordChars)
        k == RunEnd(s, j + 1, Digits)
    IN  /\ j > i
        /\ j <= Len(s)
        /\ s[j] = "["
        /\ k > j + 1
        /\ k <= Len(s)
        /\ s[k] = "]"

\* regexp.MustCompile(sliceRegexp).FindStringSubmatch(s): the leftmost match
\* of the unanchored expression as <<whole, name, digits>>, <<>> for nil
FindStringSubmatch(s) ==
    IF ~\E i \in 1..Len(s) : MatchesAt(s, i) THEN <<>>
    ELSE LET i == CHOOSE n \in 1..Len(s) :
                    MatchesAt(s, n) /\ \A m \in 1..(n - 1) : ~MatchesAt(s, m)
             j == RunEnd(s, i, WordChars)
             k == RunEnd(s, j + 1, Digits)
         IN  <<SubSeq(s, i, k), SubSeq(s, i, j - 1), SubSeq(s, j + 1, k - 1)>>

\* the number a string of decimal digits denotes
RECURSIVE DecimalValue(_)
DecimalValue(s) ==
    IF s = <<>> THEN 0
    ELSE 10 * DecimalValue(SubSeq(s, 1, Len(s) - 1)) + DigitVal(s[Len(s)])

\* strconv.Atoi: [n, ok]; fails on an empty string and on a character that
\* is no digit (after an optional sign).  It also fails on a value outside
\* the 64-bit int range: the digit strings of this model stay far below it.
Atoi(s) ==
    LET neg    == s # <<>> /\ s[1] = "-"
        signed == s # <<>> /\ s[1] \in {"-", "+"}
        body   == IF signed THEN SubSeq(s, 2, Len(s)) ELSE s
    IN  IF body = <<>> \/ \E i \in 1..Len(body) : ~IsDigit(body[i])
        THEN [n |-> 0, ok |-> FALSE]
        ELSE [n |-> IF neg THEN 0 - DecimalValue(body) ELSE DecimalValue(body),
              ok |-> TRUE]

\* fmt.Sprintf("%d", n) / strconv.Itoa(n)
RECURSIVE FormatNat(_)
FormatNat(n) ==
    IF n < 10 THEN <<DigitChar(n)>>
    ELSE FormatNat(n \div 10) \o <<DigitChar(n % 10)>>

FormatInt(n) == IF n < 0 THEN <<"-">> \o FormatNat(0 - n) ELSE FormatNat(n)

\* strconv.FormatBool
FormatBool(b) ==
    IF b THEN <<"t", "r", "u", "e">> ELSE <<"f", "a", "l", "s", "e">>

----------------------------------------------------------------------------
(* Values *)

Value(kind, str, num, items, fields, elems) ==
    [kind |-> kind, str |-> str, num |-> num, items |-> items,
     fields |-> fields, elems |-> elems]

NoValue == Value("none", <<>>, 0, <<>>, {}, {})

StringV(s) == Value("string", s, 0, <<>>, {}, {})

IntV(n) == Value("int", <<>>, n, <<>>, {}, {})

BoolV(b) == Value("bool", <<>>, IF b THEN 1 ELSE 0, <<>>, {}, {})

NilPtr == Value("ptr", <<>>, 0, <<>>, {}, {})

PtrTo(v) == Value("ptr", <<>>, 0, <<v>>, {}, {})

ChanV == Value("chan", <<>>, 0, <<>>, {}, {})

SliceV(items) == Value("slice", <<>>, 0, items, {}, {})

MapV(fields) == Value("map", <<>>, 0, <<>>, fields, {})

\* make(map[string]any)
EmptyMap == MapV({})

\* m[k] = v is present
Has(m, k) == \E f \in m.fields : f.key = k

\* m[k]
Get(m, k) == (CHOOSE f \in m.fields : f.key = k).val

\* m[k] = v
Put(m, k, v) ==
    [m EXCEPT !.fields = {f \in @ : f.key # k} \cup {[key |-> k, val |-> v]}]

Keys(m) == {f.key : f \in m.fields}

----------------------------------------------------------------------------
(* minSlice *)

\* newMinSlice
newMinSlice == Value("minSlice", <<>>, 0, <<>>, {}, {})

\* (*minSlice).set: s.elements[index] = value
set(s, index, value) ==
    [s EXCEPT !.elems = {e \in @ : e.idx # index}
                            \cup {[idx |-> index, val |-> value]}]

\* (*minSlice).get: [value, exists]
get(s, index) ==
    IF \E e \in s.elems : e.idx = index
    THEN [value |-> (CHOOSE e \in s.elems : e.idx = index).val, exists |-> TRUE]
    ELSE [value |-> NoValue, exists |-> FALSE]

----------------------------------------------------------------------------
(* Decode: one pair *)

\* v bound to the parameter of F: the result of a call, named once and used
\* several times
With(v, F(_)) == F(v)

\* parseSliceIndex: [name, idx, err]
parseSliceIndex(sliceIndex) ==
    IF Len(sliceIndex) # 3
    THEN [name |-> <<>>, idx |-> 0, err |-> "InvalidSliceIndex"]
    ELSE With(Atoi(sliceIndex[3]), LAMBDA a :
             IF ~a.ok THEN [name |-> <<>>, idx |-> 0, err |-> "InvalidIndex"]
             ELSE IF a.n < 0
             THEN [name |-> <<>>, idx |-> 0, err |-> "NegativeIndex"]
             ELSE [name |-> sliceIndex[2], idx |-> a.n, err |-> ""])

\* getOrCreateSlice with the size test off by one (> for >=)
getOrCreateSlice_OffByOne(current, sliceName) ==
    With(IF ~Has(current, sliceName)
         THEN Put(current, sliceName, newMinSlice)
         ELSE current, LAMBDA cur :
    With(Get(cur, sliceName), LAMBDA s :
        IF s.kind # "minSlice"
        THEN [cur |-> cur, slice |-> NoValue, err |-> "TypeConflict"]
        ELSE IF Cardinality(s.elems) > maxSliceSize
        THEN [cur |-> cur, slice |-> NoValue, err |-> "SliceSizeExceeded"]
        ELSE [cur |-> cur, slice |-> s, err |-> ""]))

\* getOrCreateSlice: [cur, slice, err]; cur is current after the call (the
\* new minSlice is stored before the checks)
getOrCreateSlice(current, sliceName) ==
    With(IF ~Has(current, sliceName)
         THEN Put(current, sliceName, newMinSlice)
         ELSE current, LAMBDA cur :
    With(Get(cur, sliceName), LAMBDA s :
        IF s.kind # "minSlice"
        THEN [cur |-> cur, slice |-> NoValue, err |-> "TypeConflict"]
        ELSE IF Cardinality(s.elems) >= maxSliceSize
        THEN [cur |-> cur, slice |-> NoValue, err |-> "SliceSizeExceeded"]
        ELSE [cur |-> cur, slice |-> s, err |-> ""]))

\* setSliceValue: [cur, err]
setSliceValue(current, sliceIndex, value) ==
    With(parseSliceIndex(sliceIndex), LAMBDA p :
        IF p.err # "" THEN [cur |-> current, err |-> p.err]
        ELSE With(getOrCreateSlice(current, p.name), LAMBDA g :
                 IF g.err # "" THEN [cur |-> g.cur, err |-> g.err]
                 ELSE [cur |-> Put(g.cur, p.name, set(g.slice, p.idx, value)),
                       err |-> ""]))

\* setFinalValue without the check that the key is not set yet
setFinalValue_Overwrite(current, part, value) ==
    With(FindStringSubmatch(part), LAMBDA sliceIndex :
        IF Contains(part, "[") /\ Contains(part, "]") /\ sliceIndex = <<>>
        THEN [cur |-> current, err |-> "InvalidSliceIndex"]
        ELSE IF sliceIndex # <<>>
        THEN setSliceValue(current, sliceIndex, value)
        ELSE [cur |-> Put(current, part, value), err |-> ""])

\* setFinalValue: [cur, err]
setFinalValue(current, part, value) ==
    With(FindStringSubmatch(part), LAMBDA sliceIndex :
        IF Contains(part, "[") /\ Contains(part, "]") /\ sliceIndex = <<>>
        THEN [cur |-> current, err |-> "InvalidSliceIndex"]
        ELSE IF sliceIndex # <<>>
        THEN setSliceValue(current, sliceIndex, value)
        ELSE IF Has(current, part)
        THEN [cur |-> current, err |-> "ConflictingKey"]
        ELSE [cur |-> Put(current, part, value), err |-> ""])

\* getMap: [child, err]
getMap(current, part) ==
    IF ~Has(current, part) THEN [child |-> NoValue, err |-> "TypeConflict"]
    ELSE With(Get(current, part), LAMBDA retMap :
             IF retMap.kind # "map"
             THEN [child |-> NoValue, err |-> "TypeConflict"]
             ELSE [child |-> retMap, err |-> ""])

\* the part of createMapIntoSlice after getOrCreateSlice returned slice
\* without error: the element at idx is looked up, created when absent, and
\* must be a map
mapAtIndex(cur, slice, name, idx) ==
    With(get(slice, idx), LAMBDA found :
    With(IF found.exists THEN found.value ELSE EmptyMap, LAMBDA elem :
    With(IF found.exists THEN slice ELSE set(slice, idx, elem), LAMBDA sl :
        IF elem.kind # "map"
        THEN [cur |-> Put(cur, name, sl), child |-> NoValue, name |-> <<>>,
              idx |-> 0, err |-> "TypeConflict"]
        ELSE [cur |-> Put(cur, name, sl), child |-> elem, name |-> name,
              idx |-> idx, err |-> ""])))

\* createMapIntoSlice: [cur, child, name, idx, err]; child is the map that
\* sits at index idx of the minSlice cur[name]
createMapIntoSlice(sliceIndex, current) ==
    With(parseSliceIndex(sliceIndex), LAMBDA p :
        IF p.err # ""
        THEN [cur |-> current, child |-> NoValue, name |-> <<>>, idx |-> 0,
              err |-> p.err]
        ELSE With(getOrCreateSlice(current, p.name), LAMBDA g :
                 IF g.err # ""
                 THEN [cur |-> g.cur, child |-> NoValue, name |-> <<>>,
                       idx |-> 0, err |-> g.err]
                 ELSE mapAtIndex(g.cur, g.slice, p.name, p.idx)))

\* getIntermediateValue: [cur, child, at, name, idx, err]; at tells where
\* the returned map lives in cur: "key" (cur[name]) or "index"
\* (cur[name].elements[idx])
getIntermediateValue(current, part) ==
    With(FindStringSubmatch(part), LAMBDA sliceIndex :
        IF sliceIndex # <<>>
        THEN With(createMapIntoSlice(sliceIndex, current), LAMBDA c :
                 [cur |-> c.cur, child |-> c.child, at |-> "index",
                  name |-> c.name, idx |-> c.idx, err |-> c.err])
        ELSE With(IF ~Has(current, part)
                  THEN Put(current, part, EmptyMap)
                  ELSE current, LAMBDA cur :
             With(getMap(cur, part), LAMBDA m :
                 [cur |-> cur, child |-> m.child, at |-> "key",
                  name |-> part, idx |-> 0, err |-> m.err])))

\* Go maps are references: what the walk writes into the map that
\* getIntermediateValue returned is seen through the enclosing map.  g is the
\* result of getIntermediateValue, child the returned map after the writes.
Deref(g, child) ==
    IF g.at = "key" THEN Put(g.cur, g.name, child)
    ELSE Put(g.cur, g.name, set(Get(g.cur, g.name), g.idx, child))

\* the loop of setNestedMapValue from part i on: [cur, depth, err]
RECURSIVE walkParts(_, _, _, _, _)
walkParts(current, parts, i, value, d) ==
    IF i = Len(parts)
    THEN With(setFinalValue(current, parts[i], value), LAMBDA f :
             [cur |-> f.cur, depth |-> d + 1, err |-> f.err])
    ELSE With(getIntermediateValue(current, parts[i]), LAMBDA g :
             IF g.err # ""
             THEN [cur |-> g.cur, depth |-> d + 1, err |-> g.err]
             ELSE With(walkParts(g.child, parts, i + 1, value, d + 1),
                       LAMBDA w : [cur |-> Deref(g, w.cur), depth |-> w.depth,
                                   err |-> w.err]))

\* setNestedMapValue with the depth test off by one (>= for >)
setNestedMapValue_OffByOne(current, k, value, d) ==
    IF k = <<>>
    THEN IF Has(current, <<>>)
         THEN [cur |-> current, depth |-> d, err |-> "ConflictingKey"]
         ELSE [cur |-> Put(current, <<>>, value), depth |-> d, err |-> ""]
    ELSE With(Split(k), LAMBDA parts :
             IF Len(parts) >= maxRecursionDepth
             THEN [cur |-> current, depth |-> d,
                   err |-> "RecursionDepthExceeded"]
             ELSE walkParts(current, parts, 1, value, d))

\* setNestedMapValue testing the depth of the whole call against the limit
setNestedMapValue_Aggregate(current, k, value, d) ==
    IF k = <<>>
    THEN IF Has(current, <<>>)
         THEN [cur |-> current, depth |-> d, err |-> "ConflictingKey"]
         ELSE [cur |-> Put(current, <<>>, value), depth |-> d, err |-> ""]
    ELSE With(Split(k), LAMBDA parts :
             IF d + Len(parts) > maxRecursionDepth
             THEN [cur |-> current, depth |-> d,
                   err |-> "RecursionDepthExceeded"]
             ELSE walkParts(current, parts, 1, value, d))

\* setNestedMapValue: [cur, depth, err]
setNestedMapValue(current, k, value, d) ==
    IF k = <<>>
    THEN IF Has(current, <<>>)
         THEN [cur |-> current, depth |-> d, err |-> "ConflictingKey"]
         ELSE [cur |-> Put(current, <<>>, value), depth |-> d, err |-> ""]
    ELSE With(Split(k), LAMBDA parts :
             IF Len(parts) > maxRecursionDepth
             THEN [cur |-> current, depth |-> d,
                   err |-> "RecursionDepthExceeded"]
             ELSE walkParts(current, parts, 1, value, d))

----------------------------------------------------------------------------
(* Decode: the whole call *)

\* all the orders in which a range loop may visit the members of S
RECURSIVE Perms(_)
Perms(S) ==
    IF S = {} THEN {<<>>}
    ELSE UNION {{<<x>> \o p : p \in Perms(S \ {x})} : x \in S}

\* toSlice keeping only the elements whose index is below the length
toSlice_InRange(s) ==
    {SliceV([i \in 1..Len(p) |-> p[i].val]) :
        p \in Perms({e \in s.elems : e.idx < Cardinality(s.elems)})}

\* (*minSlice).toSlice: the values of the elements in the order the range
\* loop visits the map; the set of the slices it can return
toSlice(s) ==
    {SliceV([i \in 1..Len(p) |-> p[i].val]) : p \in Perms(s.elems)}

\* convertMinSlicesToRegularSlices(data): the set of the maps it can leave
\* in data.  A minSlice entry is replaced by toSlice(), a map entry is
\* converted recursively, any other entry is left alone; the elements of a
\* minSlice are not visited.
RECURSIVE convertMinSlicesToRegularSlices(_)
RECURSIVE ConvertEntries(_)
ConvertEntries(fs) ==
    IF fs = {} THEN {{}}
    ELSE LET f    == CHOOSE x \in fs : TRUE
             vals == CASE f.val.kind = "minSlice" -> toSlice(f.val)
                       [] f.val.kind = "map" ->
                              convertMinSlicesToRegularSlices(f.val)
                       [] OTHER -> {f.val}
         IN  {rest \cup {[key |-> f.key, val |-> v]} :
                  rest \in ConvertEntries(fs \ {f}), v \in vals}

convertMinSlicesToRegularSlices(m) == {MapV(fs) : fs \in ConvertEntries(m.fields)}

\* the last value of the list for the first
firstValue_Last(value) == value[Len(value)]

\* value[0]
firstValue(value) == value[1]

\* the variables of the loop of decodeURL, as a record
LoopState(t, u, d, p, r, e) ==
    [todo |-> t, urlData |-> u, depth |-> d, pc |-> p, result |-> r,
     err |-> e]

\* one iteration of the range loop of decodeURL, on the pair (k, values[k])
\* for the next key k; st is left alone when the loop is over
loopBody(st) ==
    IF st.pc # "decode" \/ st.todo = <<>> THEN st
    ELSE IF values[Head(st.todo)] = <<>>
    THEN \* value[0] on an empty list: index out of range
         LoopState(Tail(st.todo), st.urlData, st.depth, "done", "panic",
                   st.err)
    ELSE With(setNestedMapValue(st.urlData, Head(st.todo),
                                StringV(firstValue(values[Head(st.todo)])),
                                st.depth),
              LAMBDA r :
                  LoopState(Tail(st.todo), r.cur, r.depth,
                            IF r.err # "" THEN "done" ELSE st.pc,
                            IF r.err # "" THEN "err" ELSE st.result,
                            r.err))

\* n iterations of the loop
RECURSIVE runLoop(_, _)
runLoop(st, n) ==
    IF n = 0 THEN st
    ELSE IF n = 1 THEN loopBody(st)
    ELSE With(runLoop(st, n \div 2), LAMBDA mid :
             IF mid.pc # "decode" THEN mid
             ELSE runLoop(mid, n - (n \div 2)))

\* The loop of decodeURL, observed after one iteration.  The loop is
\* sequential, so a step may as well stand for several iterations: from the
\* start of the loop the first maxSliceSize iterations are also taken at
\* once, which keeps the runs that fill a sequence short.
DecodeStep ==
    /\ pc = "decode"
    /\ todo # <<>>
    /\ \E n \in {1, maxSliceSize} :
          /\ n = 1 \/ (todo = order /\ Len(todo) >= n)
          /\ With(runLoop(LoopState(todo, urlData, depth, pc, result, err),
                          n),
                  LAMBDA st :
                      /\ todo' = st.todo
                      /\ urlData' = st.urlData
                      /\ depth' = st.depth
                      /\ pc' = st.pc
                      /\ result' = st.result
                      /\ err' = st.err)
    /\ UNCHANGED <<data, values, order>>

\* the end of decodeURL: the loop is over, the minSlices are converted and
\* urlData is returned
DecodeReturn ==
    /\ pc = "decode"
    /\ todo = <<>>
    /\ urlData' \in convertMinSlicesToRegularSlices(urlData)
    /\ result' = "ok"
    /\ pc' = "done"
    /\ UNCHANGED <<data, values, order, todo, depth, err>>

\* what Decode returns: (urlData, nil) or (nil, err)
Returned == IF result = "ok" THEN urlData ELSE NoValue

\* the state at the start of decodeURL(vs), the range loop visiting the keys
\* in the order ks
DecodeStart(vs, ks) ==
    /\ values = vs
    /\ order = ks
    /\ todo = ks
    /\ urlData = EmptyMap
    /\ depth = 0
    /\ pc = "decode"
    /\ result = "none"
    /\ err = ""

\* the keys the loop has visited
Visited == SubSeq(order, 1, Len(order) - Len(todo))

\* some pair has been processed
Stepped == Len(todo) < Len(order)

\* the key of the pair processed last (when Stepped)
LastKey == order[Len(order) - Len(todo)]

----------------------------------------------------------------------------
(* Decode on a pool of keys *)

\* the most pairs an input holds
MaxPairs == 2

\* the keys the inputs are drawn from
PathPool ==
    <<
       \* 1: a
       <<"a">>,
       \* 2: a.b
       <<"a", ".", "b">>,
       \* 3: a.c
       <<"a", ".", "c">>,
       \* 4: (the empty key)
       <<>>,
       \* 5: .b
       <<".", "b">>,
       \* 6: s[0]
       <<"s", "[", "0", "]">>,
       \* 7: s[1]
       <<"s", "[", "1", "]">>,
       \* 8: s[01]
       <<"s", "[", "0", "1", "]">>,
       \* 9: s[1000000]
       <<"s", "[", "1", "0", "0", "0", "0", "0", "0", "]">>,
       \* 10: s[0].x
       <<"s", "[", "0", "]", ".", "x">>,
       \* 11: s[0].y
       <<"s", "[", "0", "]", ".", "y">>,
       \* 12: s[00].x
       <<"s", "[", "0", "0", "]", ".", "x">>,
       \* 13: s
       <<"s">>,
       \* 14: s.x
       <<"s", ".", "x">>,
       \* 15: s[abc]
       <<"s", "[", "a", "b", "c", "]">>,
       \* 16: s[abc].x
       <<"s", "[", "a", "b", "c", "]", ".", "x">>,
       \* 17: s[-1]
       <<"s", "[", "-", "1", "]">>,
       \* 18: x-s[0]
       <<"x", "-", "s", "[", "0", "]">>,
       \* 19: s[0]x
       <<"s", "[", "0", "]", "x">>,
       \* 20: s[0][1]
       <<"s", "[", "0", "]", "[", "1", "]">>,
       \* 21: a<b>
       <<"a", "<", "b", ">">>,
       \* 22: s[0].t[0]
       <<"s", "[", "0", "]", ".", "t", "[", "0", "]">>,
       \* 23: a.t[0]
       <<"a", ".", "t", "[", "0", "]">>,
       \* 24: a.a.a.a.a.a.a.a.a.a
       <<"a", ".", "a", ".", "a", ".", "a", ".", "a", ".",
         "a", ".", "a", ".", "a", ".", "a", ".", "a">>,
       \* 25: b.b.b.b.b.b.b.b.b.b
       <<"b", ".", "b", ".", "b", ".", "b", ".", "b", ".",
         "b", ".", "b", ".", "b", ".", "b", ".", "b">>,
       \* 26: a.a.a.a.a.a.a.a.a.a.a
       <<"a", ".", "a", ".", "a", ".", "a", ".", "a", ".",
         "a", ".", "a", ".", "a", ".", "a", ".", "a", ".", "a">>,
       \* 27: a.a.a.a.a.a.a.a.a.a.a.a
       <<"a", ".", "a", ".", "a", ".", "a", ".", "a", ".",
         "a", ".", "a", ".", "a", ".", "a", ".", "a", ".", "a", ".", "a">>
    >>

\* the value sent with the i-th key of the pool: "v" and the digits of i
PoolValue(i) == <<"v">> \o FormatNat(i)

\* the url.Values with the keys of the pool numbered in I
PoolValues(I) ==
    [k \in {PathPool[i] : i \in I} |->
        <<PoolValue(CHOOSE i \in I : PathPool[i] = k)>>]

\* the subsets of S of at most n members
RECURSIVE SubsetsUpTo(_, _)
SubsetsUpTo(S, n) ==
    IF n = 0 THEN {{}}
    ELSE LET smaller == SubsetsUpTo(S, n - 1)
         IN  smaller \cup {T \cup {x} : T \in smaller, x \in S}

Init ==
    /\ data = NoValue
    /\ \E I \in SubsetsUpTo(1..Len(PathPool), MaxPairs) :
          \E ks \in Perms({PathPool[i] : i \in I}) :
              DecodeStart(PoolValues(I), ks)

Next == DecodeStep \/ DecodeReturn

Spec == Init /\ [][Next]_vars

----------------------------------------------------------------------------
(* Decode on lists of values *)

\* the keys of the inputs whose lists of values vary
ListKeys ==
    {<<"k">>, <<"s", "[", "0", "]">>, <<"a", ".", "b">>,
     <<"s", "[", "0", "]", ".", "x">>}

\* the lists of values: none, one, two ("true" then "9", "x" then "y")
ValueLists ==
    {<<>>,
     <<<<"3", "0">>>>,
     <<<<"t", "r", "u", "e">>, <<"9">>>>,
     <<<<"x">>, <<"y">>>>}

InitLists ==
    /\ data = NoValue
    /\ \E K \in SubsetsUpTo(ListKeys, MaxPairs) :
          \E vs \in [K -> ValueLists], ks \in Perms(K) : DecodeStart(vs, ks)

SpecLists == InitLists /\ [][Next]_vars

----------------------------------------------------------------------------
(* Decode on one long sequence *)

\* how many indices more than maxSliceSize the long input sets
BigExtra == 1

\* how many starting points of the iteration order are tried
BigStarts == 2

\* the number of pairs of the long input
BigCount == maxSliceSize + BigExtra

\* the key of index i: s[i] (form "leaf") or s[i].x (form "map")
BigKey(i, form) ==
    <<"s", "[">> \o FormatNat(i) \o <<"]">>
        \o (IF form = "map" THEN <<".", "x">> ELSE <<>>)

\* the url.Values that sets the indices 0..BigCount-1 of s
BigValues(form) ==
    [k \in {BigKey(i, form) : i \in 0..(BigCount - 1)} |-> <<<<"v">>>>]

\* the keys in the order of their indices, from index start on, upwards
\* (step = 1) or downwards (step = BigCount - 1), wrapping around
BigOrder(form, start, step) ==
    [j \in 1..BigCount |-> BigKey((start + step * (j - 1)) % BigCount, form)]

InitBig ==
    /\ data = NoValue
    /\ \E form \in {"leaf", "map"}, n \in 0..(BigStarts - 1),
          step \in {1, BigCount - 1} :
          DecodeStart(BigValues(form),
                      BigOrder(form, n * (BigCount \div BigStarts), step))

\* every run on the long input ends in the loop
NextBig == DecodeStep

SpecBig == InitBig /\ [][NextBig]_vars

----------------------------------------------------------------------------
(* Decode on one full sequence, one index visited again *)

\* the key s[i].y
RevisitKey(i) == <<"s", "[">> \o FormatNat(i) \o <<"]", ".", "y">>

\* the url.Values that sets s[i].x for the indices 0..maxSliceSize-1, and
\* s[j].y
RevisitValues(j) ==
    [k \in {BigKey(i, "map") : i \in 0..(maxSliceSize - 1)} \cup {RevisitKey(j)}
        |-> <<<<"v">>>>]

\* the keys s[i].x in the order of their indices, from index start on,
\* wrapping around, and s[j].y last
RevisitOrder(j, start) ==
    [n \in 1..maxSliceSize |-> BigKey((start + n - 1) % maxSliceSize, "map")]
        \o <<RevisitKey(j)>>

InitRevisit ==
    /\ data = NoValue
    /\ \E j \in {0, maxSliceSize - 1}, n \in 0..(BigStarts - 1) :
          DecodeStart(RevisitValues(j),
                      RevisitOrder(j, n * (maxSliceSize \div BigStarts)))

\* the runs in these orders end in the loop
NextRevisit == DecodeStep

SpecRevisit == InitRevisit /\ [][NextRevisit]_vars

----------------------------------------------------------------------------
(* Encode *)

\* a float64 holding the whole number n
FloatV(n) == Value("float", <<>>, n, <<>>, {}, {})

\* the nil interface value: any(nil)
NilAny == Value("interface", <<>>, 0, <<>>, {}, {})

\* a map[int]any: reflect.Kind Map with a key type that is no string
IntKeyMap == Value("map", <<>>, 1, <<>>, {}, {})

\* a field of a struct: the value of its json tag ("" when it has none),
\* whether it is embedded (fieldType.Anonymous), and its value
FieldV(tag, anonymous, v) ==
    Value("field", tag, IF anonymous THEN 1 ELSE 0, <<v>>, {}, {})

\* a struct: its fields in the order of their declaration
StructV(fs) == Value("struct", <<>>, 0, fs, {}, {})

\* v.NumField()
NumField(v) == Len(v.items)

\* v.Field(i)
Field(v, i) == v.items[i + 1].items[1]

\* v.Type().Field(i): [Anonymous, Tag]
TypeField(v, i) ==
    [Anonymous |-> v.items[i + 1].num = 1, Tag |-> v.items[i + 1].str]

\* the zero reflect.Value, of Kind Invalid
Invalid == Value("invalid", <<>>, 0, <<>>, {}, {})

\* reflect.ValueOf(x): the value an interface holds, the zero Value for nil
ValueOf(x) == IF x = NilAny THEN Invalid ELSE x

\* the reflect.Value of an element of a []any or map[string]any: of Kind
\* Interface, nil or holding the element
InterfaceOf(x) ==
    IF x = NilAny THEN x ELSE Value("interface", <<>>, 0, <<x>>, {}, {})

\* v.Index(j)
Index(v, j) == InterfaceOf(v.items[j + 1])

\* v.MapIndex(key)
MapIndex(v, key) == InterfaceOf(Get(v, key))

\* v.IsNil() of a pointer or an interface
IsNil(v) == v.items = <<>>

\* v.Elem()
Elem(v) == v.items[1]

\* v.Type().Key().Kind()
KeyKind(v) == IF v.num = 0 THEN "string" ELSE "int"

\* fmt.Sprintf("%f", x) of a float64 holding a whole number
FormatFloat(n) == FormatInt(n) \o <<".", "0", "0", "0", "0", "0", "0">>

\* url.Values{}
NoValues == [k \in {} |-> <<>>]

\* values.Set(key, value): the list of key becomes the one value
Set(vals, key, value) ==
    [k \in DOMAIN vals \cup {key} |-> IF k = key THEN <<value>> ELSE vals[k]]

\* what an encode function leaves: the values written so far and the error
\* it returns ("" for nil)
Outcome(vals, e) == [values |-> vals, err |-> e]

\* the outcomes of S, each followed by F when it is no error
Then(S, F(_)) == UNION {IF o.err # "" THEN {o} ELSE F(o.values) : o \in S}

RECURSIVE encodeValue(_, _, _)
RECURSIVE encodePointer(_, _, _)
RECURSIVE encodeSliceFrom(_, _, _, _)
RECURSIVE encodeMapKeys(_, _, _, _)
RECURSIVE encodeStructFrom(_, _, _, _)

\* encodePointer
encodePointer(vals, fieldTag, v) ==
    IF ~IsNil(v) THEN encodeValue(vals, fieldTag, Elem(v))
    ELSE {Outcome(vals, "")}

\* encodeString
encodeString(vals, fieldTag, v) == {Outcome(Set(vals, fieldTag, v.str), "")}

\* encodeInt
encodeInt(vals, fieldTag, v) ==
    {Outcome(Set(vals, fieldTag, FormatInt(v.num)), "")}

\* encodeFloat
encodeFloat(vals, fieldTag, v) ==
    {Outcome(Set(vals, fieldTag, FormatFloat(v.num)), "")}

\* encodeBool
encodeBool(vals, fieldTag, v) ==
    {Outcome(Set(vals, fieldTag, FormatBool(v.num = 1)), "")}

\* the loop of encodeSlice from the index j on
encodeSliceFrom(vals, fieldTag, v, j) ==
    IF j >= Len(v.items) THEN {Outcome(vals, "")}
    ELSE Then(encodeValue(vals,
                          fieldTag \o <<"[">> \o FormatInt(j) \o <<"]">>,
                          Index(v, j)),
              LAMBDA w : encodeSliceFrom(w, fieldTag, v, j + 1))

\* encodeSlice
encodeSlice(vals, fieldTag, v) == encodeSliceFrom(vals, fieldTag, v, 0)

\* newFieldTag of encodeMap
mapFieldTag(fieldTag, keyStr) ==
    IF fieldTag # <<>> THEN fieldTag \o <<".">> \o keyStr ELSE keyStr

\* the loop of encodeMap over the keys not yet visited: v.MapKeys() gives
\* them in any order
encodeMapKeys(vals, fieldTag, v, rest) ==
    IF rest = {} THEN {Outcome(vals, "")}
    ELSE UNION {Then(encodeValue(vals, mapFieldTag(fieldTag, key),
                                 MapIndex(v, key)),
                     LAMBDA w : encodeMapKeys(w, fieldTag, v, rest \ {key}))
                : key \in rest}

\* encodeMap
encodeMap(vals, fieldTag, v) ==
    IF KeyKind(v) # "string" THEN {Outcome(vals, "MapKeysMustBeStrings")}
    ELSE encodeMapKeys(vals, fieldTag, v, Keys(v))

\* encodeStructField treating an embedded field as any other field
encodeStructField_NotInlined(vals, fieldTag, v, i) ==
    With(TypeField(v, i), LAMBDA fieldType :
        IF fieldType.Tag = <<"-">> \/ fieldType.Tag = <<>>
        THEN {Outcome(vals, "MissingFieldTag")}
        ELSE encodeValue(vals,
                         IF fieldTag # <<>>
                         THEN fieldTag \o <<".">> \o fieldType.Tag
                         ELSE fieldType.Tag,
                         Field(v, i)))

\* encodeStructField
encodeStructField(vals, fieldTag, v, i) ==
    With(TypeField(v, i), LAMBDA fieldType :
        IF fieldType.Anonymous THEN encodeValue(vals, fieldTag, Field(v, i))
        ELSE IF fieldType.Tag = <<"-">> \/ fieldType.Tag = <<>>
        THEN {Outcome(vals, "MissingFieldTag")}
        ELSE encodeValue(vals,
                         IF fieldTag # <<>>
                         THEN fieldTag \o <<".">> \o fieldType.Tag
                         ELSE fieldType.Tag,
                         Field(v, i)))

\* the loop of encodeStruct from the field i on
encodeStructFrom(vals, fieldTag, v, i) ==
    IF i >= NumField(v) THEN {Outcome(vals, "")}
    ELSE Then(encodeStructField(vals, fieldTag, v, i),
              LAMBDA w : encodeStructFrom(w, fieldTag, v, i + 1))

\* encodeStruct
encodeStruct(vals, fieldTag, v) == encodeStructFrom(vals, fieldTag, v, 0)

\* encodeValue
encodeValue(vals, fieldTag, v) ==
    CASE v.kind \in {"ptr", "interface"} -> encodePointer(vals, fieldTag, v)
      [] v.kind = "string" -> encodeString(vals, fieldTag, v)
      [] v.kind = "int"    -> encodeInt(vals, fieldTag, v)
      [] v.kind = "float"  -> encodeFloat(vals, fieldTag, v)
      [] v.kind = "bool"   -> encodeBool(vals, fieldTag, v)
      [] v.kind = "slice"  -> encodeSlice(vals, fieldTag, v)
      [] v.kind = "map"    -> encodeMap(vals, fieldTag, v)
      [] v.kind = "struct" -> encodeStruct(vals, fieldTag, v)
      [] OTHER             -> {Outcome(vals, "ValueTypeNotSupported")}

\* encodeURL
encodeURL(vals, fieldTag, v) == encodeValue(vals, fieldTag, v)

\* the loop of Encode over the keys of data not yet visited, in any order
RECURSIVE EncodeKeys(_, _, _)
EncodeKeys(vals, d, rest) ==
    IF rest = {} THEN {Outcome(vals, "")}
    ELSE UNION {Then(encodeURL(vals, key, ValueOf(Get(d, key))),
                     LAMBDA w : EncodeKeys(w, d, rest \ {key}))
                : key \in rest}

\* Encode returning the pairs written before the error
Encode_KeepsPairs(d) == EncodeKeys(NoValues, d, Keys(d))

\* URLEncoder.Encode: (values, nil) or (nil, err)
Encode(d) ==
    {IF o.err # "" THEN Outcome(NoValues, o.err) ELSE o
        : o \in EncodeKeys(NoValues, d, Keys(d))}

----------------------------------------------------------------------------
(* Encode, then Decode of what it returned *)

\* the most elements of a slice, and entries of a map, of the inputs
MaxLen == 2

\* the scalars inside the nested containers of the inputs
Small == {StringV(<<"x">>), IntV(30)}

\* the values of the inputs that hold no other value, or one
Atoms ==
    Small \cup {BoolV(TRUE), IntV(0 - 7), FloatV(2), NilPtr,
                PtrTo(StringV(<<"x">>)), NilAny, ChanV, IntKeyMap}

\* the keys of the maps of the inputs
MapKeys == {<<"a">>, <<"b">>}

\* the []any of at most MaxLen elements of E
SlicesOf(E) == {SliceV(q) : q \in UNION {[1..n -> E] : n \in 0..MaxLen}}

\* the map[string]any of at most MaxLen entries with values of E
MapsOf(E) ==
    UNION {{MapV({[key |-> k, val |-> f[k]] : k \in K}) : f \in [K -> E]}
              : K \in SubsetsUpTo(MapKeys, MaxLen)}

Inner == SlicesOf(Small) \cup MapsOf(Small)

Elems == Atoms \cup Inner

Outer == SlicesOf(Elems) \cup MapsOf(Elems)

\* the data of the Encode calls: one key "k" with any value; the keys "k" and
\* "m"; the key ""; the keys "k.a" and "k", whose leaves share a path
EncodeInputs ==
    {MapV({[key |-> <<"k">>, val |-> v]}) : v \in Elems \cup Outer}
    \cup {MapV({[key |-> <<"k">>, val |-> v], [key |-> <<"m">>, val |-> w]})
             : v \in Atoms, w \in Atoms}
    \cup {MapV({[key |-> <<>>, val |-> v]}) : v \in Small \cup Inner}
    \cup {MapV({[key |-> <<"k", ".", "a">>, val |-> v],
                [key |-> <<"k">>,
                 val |-> MapV({[key |-> <<"a">>, val |-> w]})]})
             : v \in Small, w \in Small}

\* e.Encode(data): values and err are what it returns
EncodeCall ==
    /\ pc = "encode"
    /\ \E o \in Encode(data) :
          /\ values' = o.values
          /\ err' = o.err
          /\ pc' = IF o.err = "" THEN "encoded" ELSE "failed"
          /\ result' = IF o.err = "" THEN "none" ELSE "err"
    /\ UNCHANGED <<data, order, todo, urlData, depth>>

\* e.Decode(values) on the values Encode returned, the range loop visiting
\* the keys in any order
DecodeCall ==
    /\ pc = "encoded"
    /\ \E ks \in Perms(DOMAIN values) :
          /\ order' = ks
          /\ todo' = ks
    /\ urlData' = EmptyMap
    /\ depth' = 0
    /\ pc' = "decode"
    /\ UNCHANGED <<data, values, result, err>>

InitCycle ==
    /\ data \in EncodeInputs
    /\ values = NoValues
    /\ order = <<>>
    /\ todo = <<>>
    /\ urlData = NoValue
    /\ depth = 0
    /\ pc = "encode"
    /\ result = "none"
    /\ err = ""

NextCycle == EncodeCall \/ DecodeCall \/ DecodeStep \/ DecodeReturn

SpecCycle == InitCycle /\ [][NextCycle]_vars

----------------------------------------------------------------------------
(* Encode on structs *)

\* the most fields of the structs of the inputs
MaxFields == 2

\* struct { A string `json:"a"` }
InnerA == StructV(<<FieldV(<<"a">>, FALSE, StringV(<<"x">>))>>)

\* struct { A string `json:"a"`; C int `json:"c"` }
InnerAC ==
    StructV(<<FieldV(<<"a">>, FALSE, StringV(<<"x">>)),
              FieldV(<<"c">>, FALSE, IntV(30))>>)

\* struct { C int `json:"c"`; X string }
InnerUntagged ==
    StructV(<<FieldV(<<"c">>, FALSE, IntV(30)),
              FieldV(<<>>, FALSE, StringV(<<"x">>))>>)

\* the values of the named fields of the inputs
NamedValues ==
    Small \cup {NilPtr, ChanV, StructV(<<>>), InnerA, InnerAC, InnerUntagged,
                SliceV(<<InnerA>>)}

\* the fields of the structs of the inputs: fields tagged a or b, a field
\* tagged "-", a field with no tag, and embedded structs, pointers to a
\* struct and an embedded string type
RecordFields ==
    {FieldV(t, FALSE, v) : t \in MapKeys, v \in NamedValues}
    \cup {FieldV(<<"-">>, FALSE, StringV(<<"x">>)),
          FieldV(<<>>, FALSE, StringV(<<"x">>))}
    \cup {FieldV(<<>>, TRUE, v)
             : v \in {InnerA, InnerAC, InnerUntagged, PtrTo(InnerAC), NilPtr,
                      StringV(<<"x">>)}}

\* the structs of at most n fields
Records(n) ==
    {StructV(q) : q \in UNION {[1..m -> RecordFields] : m \in 0..n}}

\* the data of the Encode calls on structs: a struct under the key "k", under
\* the key "", and under "m" beside a string under "k"
RecordInputs ==
    {MapV({[key |-> <<"k">>, val |-> r]}) : r \in Records(MaxFields)}
    \cup {MapV({[key |-> <<>>, val |-> r]}) : r \in Records(1)}
    \cup {MapV({[key |-> <<"k">>, val |-> StringV(<<"x">>)],
                [key |-> <<"m">>, val |-> r]}) : r \in Records(1)}

InitRecords ==
    /\ data \in RecordInputs
    /\ values = NoValues
    /\ order = <<>>
    /\ todo = <<>>
    /\ urlData = NoValue
    /\ depth = 0
    /\ pc = "encode"
    /\ result = "none"
    /\ err = ""

NextRecords == EncodeCall

SpecRecords == InitRecords /\ [][NextRecords]_vars

----------------------------------------------------------------------------
(* The path grammar, as the claims state it *)

\* the last member of a non-empty sequence
Last(q) == q[Len(q)]

\* a is a proper prefix of b
IsStrictPrefix(a, b) == Len(a) < Len(b) /\ SubSeq(b, 1, Len(a)) = a

\* the places one segment selects: a Name segment selects a key, an Index
\* segment the key of the sequence and then one of its indices
SegmentSteps(seg) ==
    With(FindStringSubmatch(seg), LAMBDA m :
        IF m = <<>> THEN <<[k |-> seg, i |-> -1]>>
        ELSE <<[k |-> m[2], i |-> -1], [k |-> <<>>, i |-> Atoi(m[3]).n]>>)

RECURSIVE StepsOf(_)
StepsOf(segs) ==
    IF segs = <<>> THEN <<>>
    ELSE SegmentSteps(Head(segs)) \o StepsOf(Tail(segs))

\* the position in the tree that the path p names
PositionOf(p) == StepsOf(Split(p))

\* the path p ends in a Name segment
NameEnded(p) == FindStringSubmatch(Last(Split(p))) = <<>>

\* the input binds a Name-ended path p to a scalar and uses the position of
\* p as a container in another path q
ScalarAndContainer(p, q) ==
    /\ NameEnded(p)
    /\ IsStrictPrefix(PositionOf(p), PositionOf(q))

\* the input sets the Name-ended position of p a second time, in q
SetTwice(p, q) ==
    /\ p # q
    /\ NameEnded(p)
    /\ PositionOf(p) = PositionOf(q)

----------------------------------------------------------------------------
(* Claims *)

\* C2: Decode fails whenever its input holds a Name-ended path p (bound to a
\* scalar) together with a path that uses the position of p as a container,
\* or together with a second path that sets the position of p, in whichever
\* order the pairs are processed.
C2_ConflictFails ==
    (pc = "done" /\ \E p, q \in DOMAIN values :
                        ScalarAndContainer(p, q) \/ SetTwice(p, q))
        => result = "err"

\* C2 witness: the container path was processed first, then the scalar path
\* was refused as a conflicting key.
C2_Witness ==
    /\ pc = "done"
    /\ result = "err"
    /\ err = "ConflictingKey"
    /\ \E p, q \in DOMAIN values :
          ScalarAndContainer(p, q) /\ order = <<q, p>> /\ todo = <<>>

\* C3: an iteration of Decode on a non-empty path of more than 10 segments
\* fails with RecursionDepthExceeded and leaves the tree as it was; an
\* iteration on a path of 10 segments or fewer never fails with
\* RecursionDepthExceeded.
C3_DepthGuard ==
    [][(pc = "decode" /\ todo # <<>> /\ todo' = Tail(todo)) =>
          IF Head(todo) # <<>> /\ Len(Split(Head(todo))) > 10
          THEN result' = "err" /\ err' = "RecursionDepthExceeded"
                               /\ urlData' = urlData
          ELSE err' # "RecursionDepthExceeded"]_vars

\* C3 witness: a path of 11 segments was refused after another pair had
\* been written into the tree.
C3_Witness ==
    /\ result = "err"
    /\ err = "RecursionDepthExceeded"
    /\ Len(order) = 2
    /\ todo = <<>>
    /\ Len(Split(order[2])) = 11
    /\ urlData # EmptyMap

\* the tree v holds a minSlice with more than n distinct indices
RECURSIVE HasMinSliceOver(_, _)
HasMinSliceOver(v, n) ==
    \/ v.kind = "minSlice" /\ Cardinality({e.idx : e \in v.elems}) > n
    \/ \E f \in v.fields : HasMinSliceOver(f.val, n)
    \/ \E e \in v.elems : HasMinSliceOver(e.val, n)
    \/ \E i \in 1..Len(v.items) : HasMinSliceOver(v.items[i], n)

\* the names of the top-level sequences the input sets
InputSequences ==
    {PositionOf(k)[1].k : k \in {q \in DOMAIN values : Len(PositionOf(q)) > 1}}

\* the indices the input sets on the top-level sequence n
InputIndices(n) ==
    {PositionOf(k)[2].i :
        k \in {q \in DOMAIN values :
                  /\ Len(PositionOf(q)) > 1
                  /\ PositionOf(q)[1].k = n
                  /\ PositionOf(q)[2].i >= 0}}

\* C4: no minSlice ever holds more than 1000 distinct indices, and a call
\* whose input sets 1001 or more distinct indices on one sequence name ends
\* with SliceSizeExceeded, whatever the order of the pairs.
C4_SliceBound ==
    /\ ~HasMinSliceOver(urlData, 1000)
    /\ (pc = "done" /\ \E n \in InputSequences :
                           Cardinality(InputIndices(n)) >= 1001)
           => (result = "err" /\ err = "SliceSizeExceeded")

\* C4 witness: the sequence s holds 1000 indices and the pair that would
\* add one more, the last of the input, was refused.
C4_Witness ==
    /\ pc = "done"
    /\ err = "SliceSizeExceeded"
    /\ todo = <<>>
    /\ Cardinality(Get(urlData, <<"s">>).elems) = 1000
    /\ Cardinality(InputIndices(<<"s">>)) = 1001

\* the segment holds both brackets and the expression does not match it
BadBracketSegment(seg) ==
    /\ Contains(seg, "[")
    /\ Contains(seg, "]")
    /\ FindStringSubmatch(seg) = <<>>

\* C5 (as claimed): a pair whose path has a segment with both brackets that
\* does not match name[digits], last or intermediate, makes Decode fail with
\* InvalidSliceIndex.
C5_BadSegmentRejected ==
    (Stepped /\ \E i \in 1..Len(Split(LastKey)) :
                    BadBracketSegment(Split(LastKey)[i]))
        => (result = "err" /\ err = "InvalidSliceIndex")

\* the segment is written name[-digits]
NegativeIndexSegment(seg) ==
    \E j \in 2..(Len(seg) - 3) :
        /\ \A m \in 1..(j - 1) : IsWord(seg[m])
        /\ seg[j] = "["
        /\ seg[j + 1] = "-"
        /\ \A m \in (j + 2)..(Len(seg) - 1) : IsDigit(seg[m])
        /\ seg[Len(seg)] = "]"

\* C6 (as claimed): a pair whose path holds an index written with a leading
\* minus sign makes Decode fail with NegativeIndex.
C6_NegativeIndexKind ==
    (Stepped /\ \E i \in 1..Len(Split(LastKey)) :
                    NegativeIndexSegment(Split(LastKey)[i]))
        => (result = "err" /\ err = "NegativeIndex")

\* the key is name[digits] and nothing else
PureIndexKey(k) ==
    FindStringSubmatch(k) # <<>> /\ FindStringSubmatch(k)[1] = k

\* the keys of the input that go through the top-level name n
KeysThrough(n) == {k \in DOMAIN values : PositionOf(k)[1].k = n}

\* all the pairs of the input on n are n[i] = v, with pairwise distinct i
DistinctIndexPairs(n) ==
    /\ \A k \in KeysThrough(n) : PureIndexKey(k)
    /\ \A k1, k2 \in KeysThrough(n) :
          k1 # k2 => PositionOf(k1)[2].i # PositionOf(k2)[2].i

\* the sequence q holds the first values of the keys in K, each as often as
\* K holds keys with that value
SameMultiset(q, K) ==
    /\ Len(q) = Cardinality(K)
    /\ \A k \in K :
          Cardinality({i \in 1..Len(q) : q[i] = StringV(values[k][1])})
              = Cardinality({j \in K : values[j][1] = values[k][1]})

\* C7: when Decode succeeds and the pairs on a name n are n[i1]=v1 ..
\* n[ik]=vk with distinct indices, n is bound to a regular sequence of
\* exactly k elements, the multiset {v1..vk}.
C7_DenseSequence ==
    result = "ok" =>
        \A n \in {PositionOf(k)[1].k : k \in DOMAIN values} :
            DistinctIndexPairs(n) =>
                /\ Has(urlData, n)
                /\ Get(urlData, n).kind = "slice"
                /\ SameMultiset(Get(urlData, n).items, KeysThrough(n))

\* C7 witness: two pairs on s, the indices 0 and 1000000, were decoded.
C7_Witness ==
    /\ result = "ok"
    /\ DistinctIndexPairs(<<"s">>)
    /\ {PositionOf(k)[2].i : k \in KeysThrough(<<"s">>)} = {0, 1000000}
    /\ Len(Get(urlData, <<"s">>).items) = 2

\* the tree v holds a minSlice, at any depth
RECURSIVE HasMinSlice(_)
HasMinSlice(v) ==
    \/ v.kind = "minSlice"
    \/ \E f \in v.fields : HasMinSlice(f.val)
    \/ \E e \in v.elems : HasMinSlice(e.val)
    \/ \E i \in 1..Len(v.items) : HasMinSlice(v.items[i])

\* C8 (as claimed): the tree Decode returns holds no minSlice at any depth.
C8_NoMinSliceReturned == result = "ok" => ~HasMinSlice(urlData)

\* the scalars of the tree v: the values that are no map, slice or minSlice
RECURSIVE ScalarLeaves(_)
ScalarLeaves(v) ==
    IF v.kind \in {"map", "slice", "minSlice"}
    THEN UNION ({ScalarLeaves(f.val) : f \in v.fields}
                  \cup {ScalarLeaves(e.val) : e \in v.elems}
                  \cup {ScalarLeaves(v.items[i]) : i \in 1..Len(v.items)})
    ELSE {v}

\* C9: when Decode succeeds, every scalar of the returned tree is a string,
\* the first element of the list of some pair of the input, unchanged.
C9_FirstValuesOnly ==
    result = "ok" =>
        \A leaf \in ScalarLeaves(urlData) :
            /\ leaf.kind = "string"
            /\ \E k \in DOMAIN values : leaf.str = values[k][1]

\* C9 witness: a pair with two values was decoded into a leaf.
C9_Witness ==
    /\ result = "ok"
    /\ ScalarLeaves(urlData) # {}
    /\ \E k \in DOMAIN values : Len(values[k]) = 2

\* the scalars Encode supports
IsScalar(v) == v.kind \in {"string", "int", "float", "bool"}

\* v is built from Mappings with string keys, Sequences, References (absent
\* or present) and supported scalars
RECURSIVE EncodableInput(_)
EncodableInput(v) ==
    CASE IsScalar(v) -> TRUE
      [] v.kind \in {"ptr", "interface"} ->
            \A i \in 1..Len(v.items) : EncodableInput(v.items[i])
      [] v.kind = "slice" ->
            \A i \in 1..Len(v.items) : EncodableInput(v.items[i])
      [] v.kind = "map" ->
            v.num = 0 /\ \A f \in v.fields : EncodableInput(f.val)
      [] OTHER -> FALSE

\* the scalar leaves of v, each with its path as the claim builds it from
\* path, and with the place (keys and positions) where it lies
RECURSIVE LeavesOf(_, _, _)
LeavesOf(path, place, v) ==
    CASE IsScalar(v) -> {[path |-> path, place |-> place]}
      [] v.kind \in {"ptr", "interface"} ->
            IF v.items = <<>> THEN {} ELSE LeavesOf(path, place, v.items[1])
      [] v.kind = "slice" ->
            UNION {LeavesOf(path \o <<"[">> \o FormatNat(i - 1) \o <<"]">>,
                            Append(place, FormatNat(i - 1)), v.items[i])
                      : i \in 1..Len(v.items)}
      [] v.kind = "map" ->
            UNION {LeavesOf(IF path = <<>> THEN f.key
                            ELSE path \o <<".">> \o f.key,
                            Append(place, f.key), f.val)
                      : f \in v.fields}
      [] OTHER -> {}

\* the scalar leaves of the input d of Encode
InputLeaves(d) == UNION {LeavesOf(f.key, <<f.key>>, f.val) : f \in d.fields}

DistinctLeafPaths(d) ==
    \A l1 \in InputLeaves(d), l2 \in InputLeaves(d) :
        l1.path = l2.path => l1 = l2

\* C10: for an input built from Mappings, Sequences, References and supported
\* scalars whose leaf paths are pairwise distinct, Encode returns exactly one
\* pair per scalar leaf, under the path of the leaf, and nothing else; an
\* absent Reference yields no pair.
C10_OnePairPerLeaf ==
    (/\ pc \in {"encoded", "failed"}
     /\ EncodableInput(data)
     /\ DistinctLeafPaths(data))
    => /\ pc = "encoded"
       /\ DOMAIN values = {l.path : l \in InputLeaves(data)}
       /\ \A k \in DOMAIN values : Len(values[k]) = 1

\* v is built from Mappings with string keys, Sequences and string, integer
\* and boolean scalars
RECURSIVE RoundTripInput(_)
RoundTripInput(v) ==
    CASE v.kind \in {"string", "int", "bool"} -> TRUE
      [] v.kind = "slice" ->
            \A i \in 1..Len(v.items) : RoundTripInput(v.items[i])
      [] v.kind = "map" ->
            v.num = 0 /\ \A f \in v.fields : RoundTripInput(f.val)
      [] OTHER -> FALSE

\* v with every scalar replaced by its string form
RECURSIVE Stringified(_)
Stringified(v) ==
    CASE v.kind = "int"  -> StringV(FormatInt(v.num))
      [] v.kind = "bool" -> StringV(FormatBool(v.num = 1))
      [] v.kind = "slice" ->
            SliceV([i \in 1..Len(v.items) |-> Stringified(v.items[i])])
      [] v.kind = "map" ->
            MapV({[key |-> f.key, val |-> Stringified(f.val)] : f \in v.fields})
      [] OTHER -> v

\* a and b are equal, every sequence compared as a multiset of its elements
RECURSIVE SameTree(_, _)
SameTree(a, b) ==
    IF a.kind = "slice" /\ b.kind = "slice"
    THEN /\ Len(a.items) = Len(b.items)
         /\ \E p \in Perms(1..Len(a.items)) :
               \A i \in 1..Len(a.items) : SameTree(a.items[i], b.items[p[i]])
    ELSE IF a.kind = "map" /\ b.kind = "map"
    THEN /\ Keys(a) = Keys(b)
         /\ \A k \in Keys(a) : SameTree(Get(a, k), Get(b, k))
    ELSE a = b

\* C1: for every input built only from Mappings, Sequences and string,
\* integer and boolean scalars, Encode succeeds, Decode of its result
\* succeeds, and the decoded tree equals the input with every scalar
\* replaced by its string form and every sequence compared as a multiset.
C1_RoundTrip ==
    (RoundTripInput(data) /\ pc \in {"failed", "done"})
    => /\ pc = "done"
       /\ result = "ok"
       /\ SameTree(Stringified(data), urlData)

\* the value a Reference leads to, the Reference itself when it is absent
RECURSIVE Referent(_)
Referent(v) ==
    IF v.kind \in {"ptr", "interface"} /\ v.items # <<>>
    THEN Referent(v.items[1]) ELSE v

\* the entries a Record contributes to its enclosing path: one per named
\* field, and those of its embedded Records
RECURSIVE FlatFields(_)
FlatFields(r) ==
    UNION {IF r.items[i].num = 1
           THEN IF Referent(r.items[i].items[1]).kind = "struct"
                THEN FlatFields(Referent(r.items[i].items[1])) ELSE {}
           ELSE {[key |-> r.items[i].str, val |-> r.items[i].items[1]]}
              : i \in 1..Len(r.items)}

\* the number of entries a Record contributes
RECURSIVE FlatCount(_, _)
FlatCount(r, i) ==
    IF i > Len(r.items) THEN 0
    ELSE FlatCount(r, i + 1)
         + (IF r.items[i].num = 0 THEN 1
            ELSE IF Referent(r.items[i].items[1]).kind = "struct"
            THEN FlatCount(Referent(r.items[i].items[1]), 1) ELSE 0)

\* the values the traversal of v can visit, v included
RECURSIVE SubValues(_)
SubValues(v) ==
    {v} \cup
    CASE v.kind \in {"ptr", "interface", "slice"} ->
            UNION {SubValues(v.items[i]) : i \in 1..Len(v.items)}
      [] v.kind = "struct" ->
            UNION {SubValues(v.items[i].items[1]) : i \in 1..Len(v.items)}
      [] v.kind = "map" -> UNION {SubValues(f.val) : f \in v.fields}
      [] OTHER -> {}

IsRecord(v) == v.kind = "struct"

\* the named fields of r all have an external name, the names r contributes
\* are pairwise distinct, and its embedded fields are Records, or References
\* to Records
WellNamed(r) ==
    /\ \A i \in 1..Len(r.items) :
          IF r.items[i].num = 0 THEN r.items[i].str \notin {<<>>, <<"-">>}
          ELSE Referent(r.items[i].items[1]).kind \in {"struct", "ptr"}
    /\ Cardinality({f.key : f \in FlatFields(r)}) = FlatCount(r, 1)

\* v with every Record replaced by the Mapping of the names it contributes
RECURSIVE AsMappings(_)
AsMappings(v) ==
    CASE v.kind \in {"ptr", "interface", "slice"} ->
            [v EXCEPT !.items = [i \in 1..Len(v.items) |-> AsMappings(v.items[i])]]
      [] v.kind = "map" ->
            MapV({[key |-> f.key, val |-> AsMappings(f.val)] : f \in v.fields})
      [] v.kind = "struct" ->
            MapV({[key |-> f.key, val |-> AsMappings(f.val)]
                     : f \in FlatFields(v)})
      [] OTHER -> v

\* C11: encoding a Record gives the same pairs as encoding the Mapping that
\* binds each named field's external name to the field's value, an embedded
\* field contributing its own fields at the enclosing path.
C11_RecordAsMapping ==
    (/\ pc \in {"encoded", "failed"}
     /\ \E v \in SubValues(data) : IsRecord(v)
     /\ \A v \in SubValues(data) : IsRecord(v) => WellNamed(v))
    => Outcome(values, err) \in Encode(AsMappings(data))

\* C11 witness: a Record with a named field and an embedded Record that has
\* fields was encoded into pairs.
C11_Witness ==
    /\ pc = "encoded"
    /\ \A v \in SubValues(data) : IsRecord(v) => WellNamed(v)
    /\ \E v \in SubValues(data) :
          /\ IsRecord(v)
          /\ \E i \in 1..Len(v.items) : v.items[i].num = 0
          /\ \E i \in 1..Len(v.items) :
                /\ v.items[i].num = 1
                /\ IsRecord(Referent(v.items[i].items[1]))
                /\ FlatFields(Referent(v.items[i].items[1])) # {}
    /\ Cardinality(DOMAIN values) >= 2

\* a field with no external name, or named "-", that is not embedded
HasUntaggedField(r) ==
    \E i \in 1..Len(r.items) :
        r.items[i].num = 0 /\ r.items[i].str \in {<<>>, <<"-">>}

\* a value of a kind Encode does not support
IsUnsupported(v) ==
    \/ v.kind \in {"chan", "invalid"}
    \/ v.kind = "map" /\ v.num # 0

\* C12: when the input holds a Record with a non-embedded field that has no
\* external name, or the name "-", Encode fails and returns no pairs at all,
\* with MissingFieldTag unless a value of an unsupported kind stops it first.
C12_MissingTagAborts ==
    (/\ pc \in {"encoded", "failed"}
     /\ \E v \in SubValues(data) : IsRecord(v) /\ HasUntaggedField(v))
    => /\ pc = "failed"
       /\ values = NoValues
       /\ (\A v \in SubValues(data) : ~IsUnsupported(v))
             => err = "MissingFieldTag"

\* C12 witness: Encode failed with MissingFieldTag on an input that has a
\* leaf before the field without a name.
C12_Witness ==
    /\ pc = "failed"
    /\ err = "MissingFieldTag"
    /\ values = NoValues
    /\ InputLeaves(data) # {}

\* the whole segment has the form name[integer]; j is the place of its "["
IndexFormAt(seg, j) ==
    /\ seg[j] = "["
    /\ seg[Len(seg)] = "]"
    /\ \A i \in 1..(j - 1) : IsWord(seg[i])
    /\ \A i \in (j + 1)..(Len(seg) - 1) : IsDigit(seg[i])

IsIndexSegment(seg) == \E j \in 2..(Len(seg) - 2) : IndexFormAt(seg, j)

\* the name of a segment of the form name[integer]
IndexSegmentName(seg) ==
    SubSeq(seg, 1, (CHOOSE j \in 2..(Len(seg) - 2) : IndexFormAt(seg, j)) - 1)

\* the path is one segment with no bracket in it
PlainName(p) ==
    p # <<>> /\ ~Contains(p, ".") /\ ~Contains(p, "[") /\ ~Contains(p, "]")

\* C13: a path that is one segment with no bracket pair is decoded as a Name
\* segment whose key is its whole text, and a segment is decoded as an Index
\* segment only when the whole segment has the form name[integer]: every
\* sequence bound to a top-level key comes from such a segment with that name.
C13_WholeSegmentIndex ==
    result = "ok" =>
        /\ \A p \in DOMAIN values :
              PlainName(p) =>
                  Has(urlData, p) /\ Get(urlData, p) = StringV(values[p][1])
        /\ \A f \in urlData.fields :
              f.val.kind = "slice" =>
                  \E p \in DOMAIN values :
                      /\ p # <<>>
                      /\ IsIndexSegment(Split(p)[1])
                      /\ IndexSegmentName(Split(p)[1]) = f.key

\* the segments of the path p that Decode processes
SegmentCount(p) == IF p = <<>> THEN 0 ELSE Len(Split(p))

\* the segments of all the paths of the set P
RECURSIVE TotalSegments(_)
TotalSegments(P) ==
    IF P = {} THEN 0
    ELSE With(CHOOSE p \in P : TRUE, LAMBDA p :
             SegmentCount(p) + TotalSegments(P \ {p}))

\* C14 as stated: a batch of paths that each have at most 10 segments but
\* more than 10 segments in total is rejected with RecursionDepthExceeded.
C14_AggregateRejected ==
    (/\ pc = "done"
     /\ \A p \in DOMAIN values : SegmentCount(p) <= maxRecursionDepth
     /\ TotalSegments(DOMAIN values) > maxRecursionDepth)
    => result = "err" /\ err = "RecursionDepthExceeded"

\* C14 as amended: the depth counter of a call that succeeds has counted
\* every segment of every path, and Decode fails with RecursionDepthExceeded
\* only on a single path of more than 10 segments, whatever the count.
C14_DepthCountedNotTested ==
    /\ result = "ok" => depth = TotalSegments(DOMAIN values)
    /\ err = "RecursionDepthExceeded" =>
          /\ Stepped
          /\ SegmentCount(LastKey) > maxRecursionDepth

\* C14 witness: a batch of more than 10 segments in total was decoded.
C14_Witness ==
    /\ result = "ok"
    /\ depth > maxRecursionDepth
    /\ Cardinality(DOMAIN values) > 1

\* the input binds the sequence element that the path p ends in to a scalar
\* and uses that element as a Mapping in the path q
ElementScalarAndMapping(p, q) ==
    /\ p # <<>>
    /\ \A i \in 1..Len(Split(p)) : IsIndexSegment(Split(p)[i]) \/ PlainName(Split(p)[i])
    /\ IsIndexSegment(Last(Split(p)))
    /\ IsStrictPrefix(PositionOf(p), PositionOf(q))

\* C15: an input holding both s[i], element i bound to a scalar, and a path
\* such as s[i].x that uses element i as a Mapping makes Decode fail, in
\* whichever order the two pairs are processed.
C15_ElementConflictFails ==
    (pc = "done" /\ \E p, q \in DOMAIN values : ElementScalarAndMapping(p, q))
        => result = "err"

\* C16: Decode fails with SliceSizeExceeded only on an input that uses more
\* than 1000 distinct indices on one sequence; an input in which every
\* sequence uses at most 1000 distinct indices is never rejected with it,
\* also when its paths visit an index again.
C16_OnlyNewIndexRejected ==
    err = "SliceSizeExceeded" =>
        \E n \in InputSequences : Cardinality(InputIndices(n)) > maxSliceSize

\* the loop of decodeURL run to its end on the input, the keys visited in
\* the order ks
LoopOutcome(ks) ==
    runLoop(LoopState(ks, EmptyMap, 0, "decode", "none", ""), Len(ks))

\* C17: for one input, any two processing orders either both fail or both
\* succeed, and when they succeed the two trees are equal up to the order of
\* the elements inside sequences.
C17_OrderIndependent ==
    (pc = "done" /\ result \in {"ok", "err"}) =>
        \A ks \in Perms(DOMAIN values) :
            With(LoopOutcome(ks), LAMBDA o :
                /\ (o.result = "err") <=> (result = "err")
                /\ result = "ok" =>
                      \E t \in convertMinSlicesToRegularSlices(o.urlData) :
                          SameTree(t, urlData))

\* C18: Decode never crashes: a call that has ended returned either a tree
\* that is not nil with no error, or no tree with an error.
C18_NeverCrashes ==
    pc = "done" =>
        \/ result = "ok" /\ err = "" /\ Returned.kind = "map"
        \/ result = "err" /\ err # "" /\ Returned = NoValue

====
